---- MODULE Spec2Model ----
(***************************************************************************)
(* go-download: OpenContext / downloadRangeBytes / downloadPartial /       *)
(* Stat / Close of package download, as a state machine.                   *)
(*                                                                         *)
(* One process makes up to MaxCalls sequential calls of Open/OpenContext   *)
(* on one URL.  A call runs the main goroutine (probe, planning, the       *)
(* collection loop), one goroutine per chunk (downloadPartial) and the     *)
(* goroutine that closes the result channel.  The staging directory and    *)
(* its files outlive a call and are what a later call resumes from.        *)
(*                                                                         *)
(* A byte of the resource is represented by its offset, so a file holding  *)
(* <<2, 3>> holds the resource's bytes 2 and 3.                            *)
(***************************************************************************)
EXTENDS Integers, Sequences, FiniteSets, TLC

\* ---------------------------------------------------------------- bounds
\* Largest resource size (bytes) the server may hold.
MaxSize == 4
\* Largest value the caller's Concurrency function returns.
MaxWorkers == 3
\* Number of Open/OpenContext calls one behaviour makes.
MaxCalls == 3
\* Number of Close calls made on one handle.
MaxCloses == 2

\* The default number of goroutines.  defaultGoroutines is 10 in the program;
\* the model scales it down so that a default-sized fan-out stays within
\* the sizes above.
DefaultGoroutines == 2

\* ------------------------------------------------------ program constants
\* os.FileMode(0770), in decimal
fileMode == 504
StatusOK == 200
StatusPartialContent == 206
StatusNotFound == 404

\* The nil reader / no handle.
Nil == -1
\* The content of a path that does not exist.
NoFile == <<Nil>>

\* The url as its path segments; filepath.Base is the last of them.
Url == <<"host", "testdata", "data.txt">>
Base(u) == u[Len(u)]

MaxN == IF MaxWorkers > DefaultGoroutines THEN MaxWorkers ELSE DefaultGoroutines
Idx == 0 .. (MaxN - 1)

\* ----------------------------------------------------------------- errors
\* An error value is a tuple: its type, then its fields.
ErrNil == <<"nil">>
Canceled(u) == <<"Canceled", u>>
DeadlineExceeded(u) == <<"DeadlineExceeded", u>>
InvalidContentLength(n) == <<"Invalid content length", n>>
\* the two fields the other way round
InvalidResponseCodeSwapped(got, expected) ==
    <<"InvalidResponseCode", expected, got>>
InvalidResponseCode(got, expected) == <<"InvalidResponseCode", got, expected>>
\* what client.Do / io.Copy return once the request's context is done
ErrTransport == <<"context error">>

\* ---------------------------------------------------------- chunk planner
\* The launch loop of downloadRangeBytes: entry i is [pos, pos+chunkSize],
\* the last entry's chunkSize has remainer added, pos advances by
\* chunkSize+1.
RECURSIVE PlanLoop(_, _, _, _, _)
PlanLoop(i, goroutines, pos, chunkSize, remainer) ==
    IF i >= goroutines THEN <<>>
    ELSE LET cs == IF i = goroutines - 1 THEN chunkSize + remainer ELSE chunkSize
         IN  <<[start |-> pos, end |-> pos + cs]>>
               \o PlanLoop(i + 1, goroutines, pos + cs + 1, cs, remainer)

\* size % chunkSize with chunkSize = 0 is an integer divide by zero: a panic.
PlanPanics(size, goroutines) == size \div goroutines = 0

Remainer(size, chunkSize) == size % chunkSize

Plan(size, goroutines) ==
    LET chunkSize == size \div goroutines
        remainer  == Remainer(size, chunkSize)
    IN  PlanLoop(0, goroutines, 0, chunkSize - 1, remainer)

defaultConcurrencyFunc == DefaultGoroutines

\* goroutines: the caller's value, or the default when it is < 1 (0 also
\* stands for nil options and a nil Concurrency function).
Goroutines(c) == IF c < 1 THEN defaultConcurrencyFunc ELSE c

\* ------------------------------------------------------------------ state
VARIABLES
    size,      \* the resource's size on the server
    probe,     \* the server's answer to HEAD: [status, ranges, length]
    calls,     \* Open/OpenContext calls started so far
    pc,        \* the calling goroutine: idle, probe, ranged, whole, collect,
               \* returned, panic
    ctxKind,   \* open (Open's own WithCancel), never, cancel, timeout
    ctxErr,    \* ctx.Err(): none, canceled, deadline
    conc,      \* what options.Concurrency returns (0: nil or < 1)
    f,         \* the File: [size, modTime, dir, readers]
    ret,       \* what the call returned: [handle, err]
    prev,      \* the Canceled/DeadlineExceeded error of the call before
               \* this one, ErrNil when it returned anything else
    held,      \* f.dir of the handle the call before this one returned,
               \* when the caller still holds it unclosed ("" otherwise)
    resume,    \* downloadRangeBytes' resume flag
    plan,      \* the ranges handed to the goroutines, by index + 1
    wpc,       \* downloadPartial i: none, start, fetch, report, done
    wfi,       \* fi.Size() as goroutine i's os.Stat found it (Nil: no fi)
    wfrom,     \* the start offset goroutine i requests
    wres,      \* the partialResult goroutine i is sending
    wreq,      \* GET requests goroutine i has issued in this call
    gets,      \* whole-file GET requests issued in this call
    j,         \* the collection loop's counter
    recvd,     \* indexes whose partialResult the loop has received
    chClosed,  \* close(ch) has run
    disk,      \* dir -> [exists, files]: the staging and the temp directory
    closes     \* Close calls made on the returned handle

vars == <<size, probe, calls, pc, ctxKind, ctxErr, conc, f, ret, prev, held, resume,
          plan, wpc, wfi, wfrom, wres, wreq, gets, j, recvd, chClosed, disk,
          closes>>

callVars == <<calls, ctxKind, conc, prev, held>>
srvVars == <<size, probe>>
workerVars == <<wpc, wfi, wfrom, wres, wreq>>

Dirs == {"hash", "tmp"}
NoDir == [exists |-> FALSE, files |-> [i \in Idx |-> NoFile]]
EmptyDir == [exists |-> TRUE, files |-> [i \in Idx |-> NoFile]]

\* &File{url: url, options: options}
NewFile == [size |-> 0, modTime |-> 0, dir |-> "", readers |-> <<>>]
\* the zero partialResult, which a receive on the closed channel yields
ZeroResult == [idx |-> 0, r |-> Nil, err |-> ErrNil]
NoReturn == [handle |-> FALSE, err |-> ErrNil]

\* bytes from..to of the resource
RECURSIVE Bytes(_, _)
Bytes(from, to) == IF from > to THEN <<>> ELSE <<from>> \o Bytes(from + 1, to)

N == Len(plan)
Launched == {i \in Idx : wpc[i] # "none"}
\* no goroutine of the call is running: every downloadPartial has returned,
\* and the goroutine that closes the channel has done so once the context
\* is done (while it is not, that goroutine waits on ctx.Done())
Quiescent ==
    /\ \A i \in Idx : wpc[i] \in {"none", "done"}
    /\ (plan # <<>> /\ ctxErr # "none") => chClosed

Init ==
    /\ size \in 1 .. MaxSize
    /\ probe \in [status : {StatusOK, StatusNotFound}, ranges : BOOLEAN,
                  length : {-1, 0, size}]
    /\ calls = 0
    /\ pc = "idle"
    /\ ctxKind = "never"
    /\ ctxErr = "none"
    /\ conc = 0
    /\ f = NewFile
    /\ ret = NoReturn
    /\ prev = ErrNil
    /\ held = ""
    /\ resume = FALSE
    /\ plan = <<>>
    /\ wpc = [i \in Idx |-> "none"]
    /\ wfi = [i \in Idx |-> Nil]
    /\ wfrom = [i \in Idx |-> 0]
    /\ wres = [i \in Idx |-> ZeroResult]
    /\ wreq = [i \in Idx |-> 0]
    /\ gets = 0
    /\ j = 0
    /\ recvd = {}
    /\ chClosed = FALSE
    /\ disk = [d \in Dirs |-> NoDir]
    /\ closes = 0

\* ------------------------------------------------------------ the caller
\* Open (kind "open": its own cancellable context, canceled by the deferred
\* cancel as the call returns) or OpenContext with the caller's context.
\* A call starts once the goroutines of the call before it are gone.
OpenContext(kind, c) ==
    /\ pc \in {"idle", "returned"}
    /\ calls < MaxCalls
    /\ Quiescent
    /\ calls' = calls + 1
    /\ pc' = "probe"
    /\ ctxKind' = kind
    /\ ctxErr' = "none"
    /\ conc' = c
    /\ f' = NewFile
    /\ ret' = NoReturn
    /\ prev' = IF ret.err \in {Canceled(Url), DeadlineExceeded(Url)}
               THEN ret.err ELSE ErrNil
    /\ held' = IF ret.handle /\ closes = 0 THEN f.dir ELSE ""
    /\ resume' = FALSE
    /\ plan' = <<>>
    /\ wpc' = [i \in Idx |-> "none"]
    /\ wfi' = [i \in Idx |-> Nil]
    /\ wfrom' = [i \in Idx |-> 0]
    /\ wres' = [i \in Idx |-> ZeroResult]
    /\ wreq' = [i \in Idx |-> 0]
    /\ gets' = 0
    /\ j' = 0
    /\ recvd' = {}
    /\ chClosed' = FALSE
    /\ closes' = 0
    /\ UNCHANGED <<srvVars, disk>>

\* the caller's cancel()
Cancel ==
    /\ ctxKind = "cancel"
    /\ ctxErr = "none"
    /\ pc # "panic"
    /\ ctxErr' = "canceled"
    /\ UNCHANGED <<srvVars, callVars, gets, pc, f, ret, resume, plan, workerVars, j,
                   recvd, chClosed, disk, closes>>

\* the context's deadline passes
Deadline ==
    /\ ctxKind = "timeout"
    /\ ctxErr = "none"
    /\ pc # "panic"
    /\ ctxErr' = "deadline"
    /\ UNCHANGED <<srvVars, callVars, gets, pc, f, ret, resume, plan, workerVars, j,
                   recvd, chClosed, disk, closes>>

\* return from OpenContext; Open's deferred cancel() runs as it returns
Return(handle, err) ==
    /\ pc' = "returned"
    /\ ret' = [handle |-> handle, err |-> err]
    /\ ctxErr' = IF ctxKind = "open" THEN "canceled" ELSE ctxErr

\* ------------------------------------------------------------ OpenContext
\* the test of the header the other way round
RangesInverted(p) == ~p.ranges

\* resp.Header.Get("Accept-Ranges") == "bytes"
AcceptsRanges(p) == p.ranges

\* http.Head and the choice of path
Probe ==
    /\ pc = "probe"
    /\ IF probe.status # StatusOK
       THEN /\ Return(FALSE, InvalidResponseCode(probe.status, StatusOK))
            /\ UNCHANGED f
       ELSE /\ f' = [f EXCEPT !.size = probe.length]
            /\ pc' = IF AcceptsRanges(probe) THEN "ranged" ELSE "whole"
            /\ UNCHANGED <<ret, ctxErr>>
    /\ UNCHANGED <<srvVars, callVars, gets, resume, plan, workerVars, j, recvd,
                   chClosed, disk, closes>>

\* download: the whole-file GET into a fresh temp directory
download ==
    /\ pc = "whole"
    /\ gets' = gets + 1
    /\ \/ \* client.Do fails: the context is done
          /\ ctxErr # "none"
          /\ Return(FALSE, ErrTransport)
          /\ UNCHANGED <<f, disk>>
       \/ \* the GET is answered with another status than 200
          /\ Return(FALSE, InvalidResponseCode(StatusNotFound, StatusOK))
          /\ UNCHANGED <<f, disk>>
       \/ \* io.Copy fails after k bytes: the context is done
          /\ ctxErr # "none"
          /\ \E k \in 0 .. (size - 1) :
               disk' = [disk EXCEPT !["tmp"] =
                          [EmptyDir EXCEPT !.files[0] = Bytes(0, k - 1)]]
          /\ f' = [f EXCEPT !.dir = "tmp", !.readers = <<0>>]
          /\ Return(FALSE, ErrTransport)
       \/ \* the body is copied, the file rewound, modTime stamped
          /\ disk' = [disk EXCEPT !["tmp"] =
                        [EmptyDir EXCEPT !.files[0] = Bytes(0, size - 1)]]
          /\ f' = [f EXCEPT !.dir = "tmp", !.readers = <<0>>, !.modTime = 1]
          /\ Return(TRUE, ErrNil)
    /\ UNCHANGED <<srvVars, callVars, resume, plan, workerVars, j, recvd,
                   chClosed, closes>>

\* a size test that lets 0 through
InvalidSizeNegative(sz) == sz < 0

\* if f.size <= 0
InvalidSize(sz) == sz <= 0

\* downloadRangeBytes up to the collection loop: the size check, the
\* staging directory and the resume flag, the plan, the goroutines
Launch ==
    /\ pc = "ranged"
    /\ IF InvalidSize(f.size)
       THEN /\ Return(FALSE, InvalidContentLength(f.size))
            /\ UNCHANGED <<f, resume, plan, wpc, disk>>
       ELSE LET goroutines == Goroutines(conc)
            IN  /\ resume' = disk["hash"].exists
                /\ disk' = IF disk["hash"].exists THEN disk
                           ELSE [disk EXCEPT !["hash"] = EmptyDir]
                /\ UNCHANGED <<ret, ctxErr>>
                /\ IF PlanPanics(f.size, goroutines)
                   THEN /\ pc' = "panic"
                        /\ f' = [f EXCEPT !.dir = "hash"]
                        /\ UNCHANGED <<plan, wpc>>
                   ELSE /\ pc' = "collect"
                        /\ plan' = Plan(f.size, goroutines)
                        /\ f' = [f EXCEPT !.dir = "hash",
                                   !.readers = [i \in 1 .. goroutines |-> Nil]]
                        /\ wpc' = [i \in Idx |->
                                     IF i < goroutines THEN "start" ELSE "none"]
    /\ UNCHANGED <<srvVars, callVars, gets, wfi, wfrom, wres, wreq, j, recvd,
                   chClosed, closes>>

\* --------------------------------------------------------- downloadPartial
Expected(i) == (plan[i + 1].end - plan[i + 1].start) + 1
FileOf(i) == disk["hash"].files[i]
Exists(i) == FileOf(i) # NoFile

\* resume: a file of at least the expected length is complete
Complete(length, expected) == ~(length < expected)

\* a resume that requests the chunk from its start again
ResumeFromStart(start, length) == start

\* start += fi.Size()
ResumeFrom(start, length) == start + length

\* from the entry to the request: stat/create/open of the staging file.
\* With resume set and no such file, fi is nil and fi.Size() panics, after
\* os.Create has made the file.
WorkerOpen(i) ==
    /\ pc # "panic"
    /\ wpc[i] = "start"
    /\ IF resume /\ ~Exists(i)
       THEN /\ pc' = "panic"
            /\ disk' = [disk EXCEPT !["hash"].files[i] = <<>>]
            /\ UNCHANGED <<wpc, wfi, wfrom, wres>>
       ELSE /\ UNCHANGED pc
            /\ IF ~resume
               THEN /\ disk' = [disk EXCEPT !["hash"].files[i] = <<>>]
                    /\ wfrom' = [wfrom EXCEPT ![i] = plan[i + 1].start]
                    /\ wpc' = [wpc EXCEPT ![i] = "fetch"]
                    /\ UNCHANGED <<wfi, wres>>
               ELSE /\ wfi' = [wfi EXCEPT ![i] = Len(FileOf(i))]
                    /\ IF Complete(Len(FileOf(i)), Expected(i))
                       THEN /\ wres' = [wres EXCEPT ![i] =
                                          [idx |-> i, r |-> i, err |-> ErrNil]]
                            /\ wpc' = [wpc EXCEPT ![i] = "report"]
                            /\ UNCHANGED <<disk, wfrom>>
                       ELSE /\ wfrom' = [wfrom EXCEPT ![i] =
                                           ResumeFrom(plan[i + 1].start,
                                                      Len(FileOf(i)))]
                            /\ wpc' = [wpc EXCEPT ![i] = "fetch"]
                            /\ UNCHANGED <<disk, wres>>
    /\ UNCHANGED <<srvVars, callVars, gets, ctxErr, f, ret, resume, plan, wreq, j,
                   recvd, chClosed, closes>>

\* a copy into the file of index 0, whatever the goroutine's index
AppendToFirst(d, i, bytes) == [d EXCEPT !["hash"].files[0] = @ \o bytes]

\* io.Copy(fh, read) with fh the goroutine's own file, opened at its end
Copy(d, i, bytes) == [d EXCEPT !["hash"].files[i] = @ \o bytes]

\* the ranged GET and io.Copy into the staging file
WorkerFetch(i) ==
    /\ pc # "panic"
    /\ wpc[i] = "fetch"
    /\ wpc' = [wpc EXCEPT ![i] = "report"]
    /\ wreq' = [wreq EXCEPT ![i] = @ + 1]
    /\ \/ \* the answer is not 206
          /\ wres' = [wres EXCEPT ![i] =
                        [idx |-> i, r |-> Nil,
                         err |-> InvalidResponseCode(StatusNotFound,
                                                     StatusPartialContent)]]
          /\ UNCHANGED disk
       \/ \* client.Do or io.Copy fails after k bytes: the context is done
          /\ ctxErr # "none"
          /\ \E k \in 0 .. (plan[i + 1].end - wfrom[i]) :
               disk' = Copy(disk, i, Bytes(wfrom[i], wfrom[i] + k - 1))
          /\ wres' = [wres EXCEPT ![i] =
                        [idx |-> i, r |-> Nil, err |-> ErrTransport]]
       \/ \* 206: the body is appended and the file rewound
          /\ disk' = Copy(disk, i, Bytes(wfrom[i], plan[i + 1].end))
          /\ wres' = [wres EXCEPT ![i] = [idx |-> i, r |-> i, err |-> ErrNil]]
    /\ UNCHANGED <<srvVars, callVars, gets, pc, ctxErr, f, ret, resume, plan, wfi,
                   wfrom, j, recvd, chClosed, closes>>

\* select: <-ctx.Done(), the goroutine returns without sending
WorkerExit(i) ==
    /\ pc # "panic"
    /\ wpc[i] = "report"
    /\ ctxErr # "none"
    /\ wpc' = [wpc EXCEPT ![i] = "done"]
    /\ UNCHANGED <<srvVars, callVars, gets, pc, ctxErr, f, ret, resume, plan, wfi,
                   wfrom, wres, wreq, j, recvd, chClosed, disk, closes>>

\* the closing goroutine without wg.Wait(): <-ctx.Done(); close(ch)
WatcherCloseNoWait ==
    /\ pc \in {"collect", "returned"}
    /\ plan # <<>>
    /\ ~chClosed
    /\ ctxErr # "none"
    /\ chClosed' = TRUE
    /\ UNCHANGED <<srvVars, callVars, gets, pc, ctxErr, f, ret, resume, plan,
                   workerVars, j, recvd, disk, closes>>

\* the goroutine that closes the channel: <-ctx.Done(); wg.Wait(); close(ch)
WatcherClose ==
    /\ pc \in {"collect", "returned"}
    /\ plan # <<>>
    /\ ~chClosed
    /\ ctxErr # "none"
    /\ \A i \in Launched : wpc[i] = "done"
    /\ chClosed' = TRUE
    /\ UNCHANGED <<srvVars, callVars, gets, pc, ctxErr, f, ret, resume, plan,
                   workerVars, j, recvd, disk, closes>>

\* ----------------------------------------------------- the collection loop
\* f.readers[res.idx] = res.r
Store(readers, res) == [readers EXCEPT ![res.idx + 1] = res.r]

\* a loop that does not look at res.err
CollectIgnoringError(res) ==
    /\ j' = j + 1
    /\ IF j + 1 = Len(f.readers)
       THEN /\ f' = [f EXCEPT !.readers = Store(f.readers, res),
                              !.modTime = 1]
            /\ Return(TRUE, ErrNil)
       ELSE /\ f' = [f EXCEPT !.readers = Store(f.readers, res)]
            /\ UNCHANGED <<pc, ret, ctxErr>>

\* what the loop does with a received partialResult
Collect(res) ==
    /\ j' = j + 1
    /\ IF res.err # ErrNil
       THEN /\ Return(FALSE, res.err)
            /\ UNCHANGED f
       ELSE IF j + 1 = Len(f.readers)
       THEN /\ f' = [f EXCEPT !.readers = Store(f.readers, res),
                              !.modTime = 1]
            /\ Return(TRUE, ErrNil)
       ELSE /\ f' = [f EXCEPT !.readers = Store(f.readers, res)]
            /\ UNCHANGED <<pc, ret, ctxErr>>

\* case res := <-ch, with goroutine i the sender.  Closing ctx.Done() wakes
\* every goroutine blocked in a select on it with that case, and one that
\* reaches its select later finds ctx.Done() ready and no receiver blocked:
\* a send is received only while the context is not done.
AggReceive(i) ==
    /\ pc = "collect"
    /\ wpc[i] = "report"
    /\ ctxErr = "none"
    /\ wpc' = [wpc EXCEPT ![i] = "done"]
    /\ recvd' = recvd \cup {i}
    /\ Collect(wres[i])
    /\ UNCHANGED <<srvVars, callVars, gets, resume, plan, wfi, wfrom, wres, wreq,
                   chClosed, disk, closes>>

\* case res := <-ch on the closed channel: the zero partialResult.  The
\* channel is closed only after the context is done, so ctx.Done() is ready
\* too and the select picks either case.
AggReceiveClosed ==
    /\ pc = "collect"
    /\ chClosed
    /\ Collect(ZeroResult)
    /\ UNCHANGED <<srvVars, callVars, gets, resume, plan, workerVars, recvd,
                   chClosed, disk, closes>>

\* case <-ctx.Done()
AggCtxDone ==
    /\ pc = "collect"
    /\ ctxErr # "none"
    /\ Return(FALSE, IF ctxErr = "canceled" THEN Canceled(Url)
                     ELSE DeadlineExceeded(Url))
    /\ UNCHANGED <<srvVars, callVars, gets, f, resume, plan, workerVars, j, recvd,
                   chClosed, disk, closes>>

\* ------------------------------------------------------------ Stat, Close
fileInfo(name, sz, mode, modTime) ==
    [name |-> name, size |-> sz, mode |-> mode, modTime |-> modTime]
PathError == <<"PathError", "stat", Base(Url), "bad file descriptor">>

\* Stat without the modTime.IsZero() test
StatAlways(file) ==
    [info |-> fileInfo(Base(Url), file.size, fileMode, file.modTime),
     err |-> ErrNil]

Stat(file) ==
    IF file.modTime = 0
    THEN [info |-> Nil, err |-> PathError]
    ELSE [info |-> fileInfo(Base(Url), file.size, fileMode, file.modTime),
          err |-> ErrNil]

\* Close that leaves modTime as it is
KeepModTime(file) == file

\* f.modTime = defaultTime
ClearModTime(file) == [file EXCEPT !.modTime = 0]
\* Close that removes nothing
RemoveNothing(d, dir) == d

\* os.RemoveAll(dir)
RemoveAll(d, dir) == [d EXCEPT ![dir] = NoDir]

\* Close on the handle the call returned
Close ==
    /\ pc = "returned"
    /\ ret.handle
    /\ closes < MaxCloses
    /\ closes' = closes + 1
    /\ f' = ClearModTime(f)
    /\ disk' = RemoveAll(disk, f.dir)
    /\ UNCHANGED <<srvVars, callVars, gets, pc, ctxErr, ret, resume, plan,
                   workerVars, j, recvd, chClosed>>

Next ==
    \/ \E kind \in {"open", "never", "cancel", "timeout"}, c \in 0 .. MaxWorkers :
         OpenContext(kind, c)
    \/ Cancel
    \/ Deadline
    \/ Probe
    \/ download
    \/ Launch
    \/ \E i \in Idx : WorkerOpen(i)
    \/ \E i \in Idx : WorkerFetch(i)
    \/ \E i \in Idx : WorkerExit(i)
    \/ WatcherClose
    \/ \E i \in Idx : AggReceive(i)
    \/ AggReceiveClosed
    \/ AggCtxDone
    \/ Close

Spec == Init /\ [][Next]_vars

\* Every goroutine that can take a step eventually does: the calling
\* goroutine (probe, download, launch, the select of the collection loop),
\* each downloadPartial and the goroutine that closes the channel.  The
\* caller's next call, cancel(), the deadline and Close are not forced.
MainStep ==
    \/ Probe
    \/ download
    \/ Launch
    \/ \E i \in Idx : AggReceive(i)
    \/ AggReceiveClosed
    \/ AggCtxDone
WorkerStep(i) == WorkerOpen(i) \/ WorkerFetch(i) \/ WorkerExit(i)
FairSpec ==
    /\ Spec
    /\ WF_vars(MainStep)
    /\ \A i \in Idx : WF_vars(WorkerStep(i))
    /\ WF_vars(WatcherClose)

\* ------------------------------------------------------- reading a handle
\* what the reader in slot k yields: the staging file it was opened on; a
\* nil reader yields no bytes (the read panics), shown as <<Nil>>
ReadSlot(file, d, k) ==
    IF file.readers[k] = Nil THEN <<Nil>>
    ELSE d[file.dir].files[file.readers[k]]

\* io.MultiReader over f.readers, read to the end
RECURSIVE ReadFrom(_, _, _)
ReadFrom(file, d, k) ==
    IF k > Len(file.readers) THEN <<>>
    ELSE ReadSlot(file, d, k) \o ReadFrom(file, d, k + 1)
ReadAll(file, d) == ReadFrom(file, d, 1)

\* a call on the ranged path that has handed ranges to goroutines
Ranged == plan # <<>>
Returned == pc = "returned"
Success == Returned /\ ret.handle

\* ================================================================ claims

\* C1: for every size S > 0 and worker count N >= 1 the ranges handed to the
\* goroutines are exactly N, the first starts at 0, each next one starts at
\* the previous end + 1, and the last ends at S - 1.
C1_PlanCoversExactly ==
    (f.dir = "hash") =>
        /\ Len(plan) = Goroutines(conc)
        /\ plan[1].start = 0
        /\ \A k \in 2 .. Len(plan) : plan[k].start = plan[k - 1].end + 1
        /\ plan[Len(plan)].end = f.size - 1

\* C2: when the context is done while the collection loop has not yet
\* received every planned chunk, the call returns Canceled (explicit cancel)
\* or DeadlineExceeded (deadline) with the url, never a handle and never
\* another error.
C2_CancelReturnsCancelError ==
    [][(pc = "collect" /\ ctxErr # "none" /\ pc' = "returned") =>
          /\ ~ret'.handle
          /\ ret'.err = (IF ctxErr = "canceled" THEN Canceled(Url)
                         ELSE DeadlineExceeded(Url))]_vars

\* C3: a call returns a handle or an error, never both and never neither,
\* and every slot of a returned handle's reader slice holds the handle the
\* goroutine of that index reported.
C3_HandleXorErrorFullyFormed ==
    Returned =>
        /\ ret.handle <=> (ret.err = ErrNil)
        /\ (ret.handle /\ Ranged) =>
              \A k \in 1 .. Len(f.readers) :
                  /\ f.readers[k] = k - 1
                  /\ (k - 1) \in recvd
        /\ (ret.handle /\ ~Ranged) => f.readers = <<0>>

\* C4: in every successful ranged transfer the reader at position i of the
\* composed stream is the handle the goroutine with index i reported,
\* whatever order the results arrived in.
C4_StreamInIndexOrder ==
    (Success /\ Ranged) =>
        \A i \in 0 .. (N - 1) :
            /\ wres[i].err = ErrNil
            /\ f.readers[i + 1] = wres[i].r

\* C5: in every successful ranged transfer, fresh or resumed, the composed
\* stream holds exactly size bytes: the resource's bytes 0 .. size-1 in order.
\* Stated for the calls whose context is not done before they return, so
\* that every reader is a staging file a goroutine reported.
Uncancelled == ctxKind \in {"open", "never"}
C5_StreamIsResource ==
    (Success /\ Ranged /\ Uncancelled /\ closes = 0) =>
        /\ Len(ReadAll(f, disk)) = f.size
        /\ ReadAll(f, disk) = Bytes(0, size - 1)

\* C6: after a canceled ranged transfer the staging directory is left on
\* disk, and a later call whose context is never canceled, once it has
\* launched its goroutines, has taken the resume path, does not crash and,
\* if the server answers its requests, returns a handle whose stream has
\* exactly size bytes, whatever files the canceled call left and whatever
\* the two calls' worker counts.
AfterCancel == prev = Canceled(Url) /\ Uncancelled
ServerAnswered ==
    \A i \in Launched :
        wres[i].err # InvalidResponseCode(StatusNotFound, StatusPartialContent)
C6_ResumeAfterCancel ==
    /\ (Returned /\ ret.err = Canceled(Url)) => disk["hash"].exists
    /\ (AfterCancel /\ Ranged) =>
          /\ resume
          /\ pc # "panic"
          /\ (Returned /\ ServerAnswered) => ret.handle
          /\ (Success /\ closes = 0) => Len(ReadAll(f, disk)) = size

\* what the same reader slice yields over the files a fresh transfer of this
\* plan writes: file i holds the bytes start_i .. end_i
RECURSIVE FreshFrom(_, _)
FreshFrom(file, k) ==
    IF k > Len(file.readers) THEN <<>>
    ELSE (IF file.readers[k] = Nil THEN <<Nil>>
          ELSE Bytes(plan[file.readers[k] + 1].start,
                     plan[file.readers[k] + 1].end))
         \o FreshFrom(file, k + 1)
FreshRead(file) == FreshFrom(file, 1)

\* C7: on resume a goroutine whose staging file has the expected length
\* (end - start + 1) reports success with that file and issues no request;
\* and a resumed transfer all of whose staging files had the expected
\* length yields the bytes a fresh transfer yields.
FoundComplete(i) == resume /\ wfi[i] = Expected(i)
C7_ResumeCompleteChunks ==
    /\ \A i \in Launched :
          (FoundComplete(i) /\ wpc[i] # "start") =>
              /\ wpc[i] \in {"report", "done"}
              /\ wreq[i] = 0
              /\ wres[i] = [idx |-> i, r |-> i, err |-> ErrNil]
    /\ (Success /\ Ranged /\ closes = 0
          /\ \A i \in Launched : FoundComplete(i)) =>
          ReadAll(f, disk) = FreshRead(f)

\* C8: once Close has been called on a handle, once or more, Stat fails with
\* a PathError and a nil FileInfo and the handle's staging directory does
\* not exist; a further Close leaves it so.
C8_ClosedHandle ==
    (closes >= 1) =>
        /\ Stat(f).err = PathError
        /\ Stat(f).info = Nil
        /\ ~disk[f.dir].exists
        /\ \A i \in Idx : disk[f.dir].files[i] = NoFile
C8_ClosedTwice ==
    /\ closes = 2
    /\ Ranged
    /\ Stat(f).err = PathError
    /\ ~disk["hash"].exists

\* C9: modTime is set exactly between a call's successful return and the
\* first Close; exactly then Stat succeeds, with the url's base name, the
\* probed size and mode 0770, which is not a directory's mode (permission
\* bits only, nothing above 0777); in every other state Stat fails with a
\* PathError.
HandleOpen == Success /\ closes = 0
C9_StatLifecycle ==
    /\ (f.modTime # 0) <=> HandleOpen
    /\ (Stat(f).err = ErrNil) <=> HandleOpen
    /\ HandleOpen =>
          /\ Stat(f).info.name = "data.txt"
          /\ Stat(f).info.size = probe.length
          /\ Stat(f).info.mode = fileMode
          /\ Stat(f).info.mode \in 0 .. 511
    /\ ~HandleOpen =>
          /\ Stat(f).err = PathError
          /\ Stat(f).info = Nil
C9_StatOnOpenHandle ==
    /\ HandleOpen
    /\ Ranged
    /\ Stat(f).err = ErrNil
    /\ Stat(f).info.size = size

\* C10: when the collection loop returns the error a goroutine reported,
\* every launched goroutine has exited by the time the call returns.
WorkerError(e) == e \notin {ErrNil, Canceled(Url), DeadlineExceeded(Url)}
C10_FailFastJoinsWorkers ==
    (Returned /\ Ranged /\ WorkerError(ret.err)) =>
        /\ \E i \in recvd : wres[i].err = ret.err
        /\ \A i \in Launched : wpc[i] = "done"

\* C11: once a ranged transfer has ended and its handle, if one was
\* returned, has been closed, the staging directory does not exist, for
\* failed and canceled transfers as for successful ones.
C11_NoOrphanedDirectory ==
    (Returned /\ Ranged /\ Quiescent /\ (ret.handle => closes >= 1)) =>
        ~disk["hash"].exists

\* C11, amended: the staging directory of a ranged transfer is removed by
\* Close on a returned handle and by nothing else: after Close it does not
\* exist; a ranged transfer that returns an error returns no handle and
\* leaves the directory on disk, and so does a handle not yet closed.
C11_DirectoryRemovedOnlyByClose ==
    (Returned /\ Ranged) =>
        /\ (ret.handle /\ closes >= 1) => ~disk["hash"].exists
        /\ (ret.handle /\ closes = 0) => disk["hash"].exists
        /\ ~ret.handle => disk["hash"].exists
C11_FailedTransferEnded ==
    /\ Returned
    /\ Ranged
    /\ Quiescent
    /\ WorkerError(ret.err)
    /\ disk["hash"].exists

\* C12: when the probe is answered with another status than 200, the call
\* returns InvalidResponseCode{got: status, expected: 200} and no handle,
\* creates no directory, launches no goroutine and issues no GET request.
C12_ProbeRejected ==
    (probe.status # StatusOK) =>
        /\ pc \in {"idle", "probe", "returned"}
        /\ Returned =>
              /\ ~ret.handle
              /\ ret.err = <<"InvalidResponseCode", probe.status, 200>>
        /\ \A d \in Dirs : disk[d] = NoDir
        /\ Launched = {}
        /\ gets = 0
        /\ \A i \in Idx : wreq[i] = 0
C12_ProbeAnswered404 ==
    /\ Returned
    /\ probe.status = StatusNotFound
    /\ ret.err = <<"InvalidResponseCode", 404, 200>>

\* C13: when the probe reports Accept-Ranges: bytes and a size <= 0, the
\* call returns the invalid-content-length error and no handle, and no
\* ranged transfer is attempted: no directory is created, no goroutine is
\* launched and no request is issued.
RangedNoSize == probe.status = StatusOK /\ probe.ranges /\ probe.length <= 0
C13_InvalidContentLength ==
    RangedNoSize =>
        /\ pc \in {"idle", "probe", "ranged", "returned"}
        /\ Returned =>
              /\ ~ret.handle
              /\ ret.err = <<"Invalid content length", probe.length>>
        /\ \A d \in Dirs : disk[d] = NoDir
        /\ plan = <<>>
        /\ Launched = {}
        /\ gets = 0
        /\ \A i \in Idx : wreq[i] = 0
C13_ZeroLengthRejected ==
    /\ Returned
    /\ RangedNoSize
    /\ probe.length = 0
    /\ ret.err = <<"Invalid content length", 0>>

\* C14: in a ranged transfer whose context is not canceled, a goroutine
\* whose request is answered with another status than 206 reports
\* InvalidResponseCode{got: status, expected: 206}, and the call returns the
\* first error the collection loop receives and no handle.
BadStatus(i) == wres[i].err = <<"InvalidResponseCode", 404, 206>>
ReceivedErrors == {i \in recvd : wres[i].err # ErrNil}
C14_BadPartialStatus ==
    (Uncancelled /\ Ranged) =>
        /\ \A i \in Launched :
              (wpc[i] = "report" /\ ctxErr = "none" /\ wres[i].err # ErrNil)
                  => BadStatus(i) /\ wres[i].idx = i /\ wres[i].r = Nil
        /\ (pc = "collect") => ReceivedErrors = {}
        /\ (Returned /\ ReceivedErrors # {}) =>
              /\ ~ret.handle
              /\ Cardinality(ReceivedErrors) = 1
              /\ \A i \in ReceivedErrors : BadStatus(i) /\ ret.err = wres[i].err
        /\ (Returned /\ \E i \in Launched : BadStatus(i)) => ~ret.handle
C14_BadStatusAfterGoodResult ==
    /\ Uncancelled
    /\ Returned
    /\ \E i \in recvd : wres[i].err = ErrNil
    /\ \E i \in recvd : BadStatus(i) /\ ret.err = wres[i].err

\* C15: the number of goroutines launched for a ranged transfer is the value
\* the caller's Concurrency function returns when it is >= 1, and the
\* default when options or Concurrency are nil or the value is < 1.
C15_WorkerCount ==
    (f.dir = "hash") =>
        Launched = 0 .. ((IF conc >= 1 THEN conc ELSE DefaultGoroutines) - 1)

\* C16: the ranged path (goroutines, the url-hash directory) is taken if and
\* only if the probe carries Accept-Ranges: bytes; otherwise exactly one
\* whole-file GET is issued and no goroutine is launched, another answer
\* than 200 to that GET yields InvalidResponseCode{got, expected: 200} with
\* no directory created, and a success yields a handle with one reader.
PastProbe == probe.status = StatusOK /\ pc \notin {"idle", "probe"}
C16_PathSelection ==
    /\ [](/\ (PastProbe /\ probe.ranges) =>
                /\ pc \in {"ranged", "collect", "panic", "returned"}
                /\ gets = 0
                /\ ~disk["tmp"].exists
          /\ (PastProbe /\ ~probe.ranges) =>
                /\ pc \in {"whole", "returned"}
                /\ Launched = {}
                /\ plan = <<>>
                /\ \A i \in Idx : wreq[i] = 0
                /\ ~disk["hash"].exists
                /\ gets = (IF Returned THEN 1 ELSE 0)
          /\ (PastProbe /\ ~probe.ranges /\ Returned /\ ret.handle) =>
                /\ Len(f.readers) = 1
                /\ f.dir = "tmp"
                /\ ReadAll(f, disk) = (IF closes = 0 THEN Bytes(0, size - 1)
                                       ELSE NoFile)
          /\ (PastProbe /\ ~probe.ranges /\ Returned
                /\ ret.err = <<"InvalidResponseCode", 404, 200>>) =>
                /\ ~ret.handle
                /\ f.dir = ""
                /\ f.readers = <<>>)
    /\ [][(pc = "whole" /\ ret'.err = <<"InvalidResponseCode", 404, 200>>)
             => disk' = disk]_vars
C16_WholeFileGetRejected ==
    /\ PastProbe
    /\ ~probe.ranges
    /\ Returned
    /\ gets = 1
    /\ ret.err = <<"InvalidResponseCode", 404, 200>>

\* C17: once the context is canceled or its deadline has passed, every
\* launched goroutine eventually exits, the channel is eventually closed
\* and the calling goroutine eventually returns, under weak fairness of
\* every goroutine.
Drained ==
    /\ \A i \in Launched : wpc[i] = "done"
    /\ chClosed
    /\ Returned
C17_CancelDrains ==
    \A c \in 1 .. MaxCalls :
        (calls = c /\ f.dir = "hash" /\ ctxErr # "none")
            ~> (calls = c /\ Drained)

\* C18: the channel is closed at most once, and only after the context is
\* done and every launched goroutine has exited; in no state can a
\* goroutine send, or be about to send, on the closed channel.
C18_ClosedAfterWorkers ==
    /\ [](chClosed =>
            /\ plan # <<>>
            /\ ctxErr # "none"
            /\ \A i \in Launched : wpc[i] = "done")
    /\ [][(~chClosed /\ chClosed') =>
             /\ ctxErr # "none"
             /\ \A i \in Launched : wpc[i] = "done"
             /\ wpc' = wpc]_vars
    /\ [][(chClosed /\ calls' = calls) => chClosed']_vars
C18_ClosedWithSeveralWorkers ==
    /\ chClosed
    /\ Cardinality(Launched) >= 2
    /\ \E i \in Launched : wres[i].err = ErrTransport

\* C19: whenever the composed stream is built, the collection loop has
\* received exactly one result sent by each of the N planned goroutines:
\* its counter is N and every counted receive is a result a goroutine sent,
\* never a receive on the closed channel.
C19_OneResultPerWorker ==
    (Success /\ Ranged) =>
        /\ j = N
        /\ recvd = 0 .. (N - 1)
        /\ Cardinality(recvd) = j

\* C20: during one ranged transfer each slot of the reader slice is written
\* at most once, with the handle carried by the result of the goroutine of
\* that index; a slot once set is never overwritten or set back to nil.
C20_SlotWrittenOnce ==
    [][(calls' = calls /\ Len(f'.readers) = Len(f.readers)) =>
          \A k \in 1 .. Len(f.readers) :
              (f'.readers[k] # f.readers[k]) =>
                  /\ f.readers[k] = Nil
                  /\ wpc[k - 1] = "report"
                  /\ f'.readers[k] = wres[k - 1].r]_vars

\* C21: on resume, a goroutine whose staging file holds k bytes with
\* 0 <= k < end - start + 1 requests the range [start + k, end] and appends
\* the answer to the file: after a successful copy the file has exactly
\* end - start + 1 bytes, the last of them the bytes requested, and the
\* reported handle reads the file from its beginning.
FoundShort(i) == resume /\ wfi[i] # Nil /\ wfi[i] < Expected(i)
C21_AppendResume ==
    \A i \in Launched :
        (FoundShort(i) /\ wpc[i] # "start") =>
            /\ wfrom[i] = plan[i + 1].start + wfi[i]
            /\ wreq[i] = (IF wpc[i] = "fetch" THEN 0 ELSE 1)
            /\ (wpc[i] = "fetch") => Len(FileOf(i)) = wfi[i]
            /\ (wpc[i] # "fetch" /\ wres[i].err = ErrNil
                  /\ disk["hash"].exists) =>
                  /\ Len(FileOf(i)) = Expected(i)
                  /\ SubSeq(FileOf(i), wfi[i] + 1, Expected(i))
                       = Bytes(plan[i + 1].start + wfi[i], plan[i + 1].end)
                  /\ wres[i].r = i
                  /\ ReadSlot([f EXCEPT !.readers = <<wres[i].r>>], disk, 1)
                       = FileOf(i)
C21_AppendedToPartialFile ==
    \E i \in Launched :
        /\ FoundShort(i)
        /\ wfi[i] >= 1
        /\ wpc[i] = "done"
        /\ wres[i].err = ErrNil
        /\ Len(FileOf(i)) = Expected(i)

\* C22: when the resume flag is set and the staging file of a goroutine's
\* index does not exist, the goroutine creates the file, requests its full
\* range [start, end] and reports a result; it does not crash.
OpenedMissing(i) == resume /\ wpc[i] # "start" /\ wfi[i] = Nil
C22_MissingFileOnResume ==
    (resume /\ Ranged) =>
        /\ pc # "panic"
        /\ \A i \in Launched :
              OpenedMissing(i) =>
                  /\ wfrom[i] = plan[i + 1].start
                  /\ (wpc[i] # "fetch") => wreq[i] = 1

\* C23: Close of one handle removes no staging file that belongs to another
\* handle that is still open, also when both are handles of the same url.
C23_CloseSparesOtherHandle ==
    [][(held = "hash" /\ closes' = closes + 1) =>
          disk'[held] = disk[held]]_vars

\* C24: within one ranged transfer a goroutine creates, truncates or appends
\* to the staging file of its own index only; a goroutine that fails leaves
\* the files of the other indexes as they are, and the bytes it wrote
\* before failing stay in its file.
Changed == {k \in Idx : disk'["hash"].files[k] # disk["hash"].files[k]}
C24_WorkerWritesOwnFile ==
    [][(calls' = calls /\ closes' = closes) =>
          /\ Cardinality(Changed) <= 1
          /\ \A k \in Changed :
                /\ wpc[k] \in {"start", "fetch"}
                /\ wpc'[k] # wpc[k] \/ pc' = "panic"
                /\ (wpc[k] = "fetch") =>
                      /\ Len(disk'["hash"].files[k]) > Len(FileOf(k))
                      /\ SubSeq(disk'["hash"].files[k], 1, Len(FileOf(k)))
                           = FileOf(k)
          /\ \A k \in Idx :
                (wpc[k] \in {"report", "done"}) => k \notin Changed
          /\ disk["hash"].exists => disk'["hash"].exists]_vars
C24_FailedBesideCompleteFile ==
    \E i, k \in Launched :
        /\ i # k
        /\ wres[i].err = ErrTransport
        /\ Len(FileOf(i)) >= 1
        /\ Len(FileOf(i)) < Expected(i)
        /\ wres[k].err = ErrNil
        /\ wpc[k] = "done"
        /\ FileOf(k) = Bytes(plan[k + 1].start, plan[k + 1].end)

\* C25: when the context passed to OpenContext is already done, the call
\* makes no progress: it sends no probe, creates no directory, launches no
\* goroutine, and returns Canceled or DeadlineExceeded.
C25_ContextHonouredFromStart ==
    [][(pc = "probe" /\ ctxErr # "none" /\ pc' # "probe") =>
          /\ pc' = "returned"
          /\ ~ret'.handle
          /\ ret'.err = (IF ctxErr = "canceled" THEN Canceled(Url)
                         ELSE DeadlineExceeded(Url))
          /\ disk' = disk
          /\ wpc' = wpc]_vars

\* C26: when the context is never canceled, the collection loop eventually
\* ends and the call returns: there is no deadlock between the goroutines
\* at their send on the unbuffered channel and the loop.
C26_TerminatesUncancelled ==
    \A c \in 1 .. MaxCalls :
        (calls = c /\ pc = "collect" /\ Uncancelled)
            ~> (calls = c /\ Returned)

====
